---- MODULE Spec2Model ----
(***************************************************************************)
(* Model of src/build_targets.rs of cargo-c: the artifact naming table     *)
(* (FileNames::from_target), the artifact set (BuildTargets::new,          *)
(* BuildTargets::debug_info_file_name) and the extra install targets       *)
(* (extra_targets, ExtraTargets::setup).                                   *)
(*                                                                         *)
(* Text that the code takes apart or puts together (paths, file names) is  *)
(* a sequence of one-character strings, so join, file_name and             *)
(* with_extension are computed as std::path computes them on a Unix host.  *)
(* Text that the code only compares with literals (target.os, target.env)  *)
(* is a TLA+ string.  Option<T> is a sequence of length 0 or 1; Result is  *)
(* a record with the field ok.                                             *)
(***************************************************************************)
EXTENDS Naturals, Sequences, FiniteSets, TLC

VARIABLES op, args, ret, build_targets, extra

vars == <<op, args, ret, build_targets, extra>>

-----------------------------------------------------------------------------
(* Option and Result *)

None == <<>>

Some(x) == <<x>>

Ok(v) == [ok |-> TRUE, val |-> v]

Err(e) == [ok |-> FALSE, err |-> e]

-----------------------------------------------------------------------------
(* Bounds and input domains *)

\* at most this many declarations in install.include and install.data together
MaxDecls == 2

UnixLike == {"none", "linux", "freebsd", "dragonfly", "netbsd", "android",
             "haiku", "illumos", "openbsd", "emscripten", "hurd"}

Apple == {"macos", "ios", "tvos", "visionos"}

OtherOs == {"solaris", "wasi", ""}

OsNames == UnixLike \cup Apple \cup {"windows"} \cup OtherOs

EnvNames == {"", "msvc", "gnu", "musl"}

Targets == [is_target_overridden : {FALSE}, arch : {"x86_64"}, os : OsNames, env : EnvNames]

ferris == <<"f", "e", "r", "r", "i", "s">>

LibNames == {ferris, <<"a", "b">>}

foo_bar == <<"/", "f", "o", "o", "/", "b", "a", "r">>

\* the second directory is written with a trailing separator
TargetDirs == {foo_bar, <<"/", "t", "/">>}

PcNames == {ferris, <<"c", ".", "1">>}

HeaderNames == {ferris, <<"a", ".", "b">>}

LibraryTypesSet == [staticlib : BOOLEAN, cdylib : BOOLEAN]

CApiConfigs == [pkg_config : [filename : PcNames],
                header : [enabled : BOOLEAN, generation : BOOLEAN, name : HeaderNames]]

BinDirs == {<<"/", "u", "/", "b", "i", "n">>, foo_bar}

LibDirs == {<<"/", "u", "/", "l", "i", "b">>, foo_bar}

-----------------------------------------------------------------------------
(* std::path on a Unix host *)

has_root(p) == Len(p) > 0 /\ p[1] = "/"

\* Path::join, that is PathBuf::push on a copy
join(base, path) ==
    IF has_root(path) THEN path
    ELSE IF Len(base) > 0 /\ base[Len(base)] # "/" THEN base \o <<"/">> \o path
    ELSE base \o path

\* the text of p cut at every separator, empty pieces included
RECURSIVE split(_, _, _)
split(p, i, cur) ==
    IF i > Len(p) THEN <<cur>>
    ELSE IF p[i] = "/" THEN <<cur>> \o split(p, i + 1, <<>>)
    ELSE split(p, i + 1, Append(cur, p[i]))

\* Path::components: the root, then the pieces that are neither empty nor
\* "." (a leading "." of a relative path is kept)
components(p) ==
    LET pieces == split(p, 1, <<>>)
        keep(i) == /\ pieces[i] # <<>>
                   /\ (pieces[i] = <<".">> => (i = 1 /\ ~has_root(p)))
        kept == SelectSeq([i \in 1..Len(pieces) |-> <<i, pieces[i]>>],
                          LAMBDA e : keep(e[1]))
        body == [i \in 1..Len(kept) |-> kept[i][2]]
    IN IF has_root(p) THEN <<<<"/">>>> \o body ELSE body

is_normal(c) == c # <<"/">> /\ c # <<".">> /\ c # <<".", ".">>

\* Path::file_name: the last component when it is a normal one
file_name(p) ==
    LET cs == components(p)
    IN IF cs # <<>> /\ is_normal(cs[Len(cs)]) THEN Some(cs[Len(cs)]) ELSE None

\* position of the last "." of a file name, 0 when there is none
last_dot(f) ==
    LET dots == {i \in 1..Len(f) : f[i] = "."}
    IN IF dots = {} THEN 0 ELSE CHOOSE i \in dots : \A j \in dots : j <= i

\* Path::file_stem of a file name: the part before the last ".", the whole
\* name when it has no "." or only a leading one
file_stem(f) == IF last_dot(f) <= 1 THEN f ELSE SubSeq(f, 1, last_dot(f) - 1)

RECURSIVE strip_seps(_)
strip_seps(p) ==
    IF Len(p) > 0 /\ p[Len(p)] = "/" THEN strip_seps(SubSeq(p, 1, Len(p) - 1)) ELSE p

\* Path::with_extension: the path is cut at the end of the file stem and
\* "." and the extension are appended; a path without file name is unchanged
with_extension(p, ext) ==
    IF file_name(p) = None THEN p
    ELSE LET f == file_name(p)[1]
             q == strip_seps(p)
             stem_end == Len(q) - (Len(f) - Len(file_stem(f)))
         IN SubSeq(q, 1, stem_end) \o (IF ext = <<>> THEN <<>> ELSE <<".">> \o ext)

-----------------------------------------------------------------------------
(* FileNames::from_target *)

FileNames(static_lib, shared_lib, impl_lib, debug_info, def) ==
    [static_lib |-> static_lib, shared_lib |-> shared_lib, impl_lib |-> impl_lib,
     debug_info |-> debug_info, def |-> def]

unix_names(lib_name, targetdir) ==
    LET static_lib == join(targetdir, <<"l", "i", "b">> \o lib_name \o <<".", "a">>)
        shared_lib == join(targetdir, <<"l", "i", "b">> \o lib_name \o <<".", "s", "o">>)
    IN FileNames(static_lib, shared_lib, None, None, None)

\* apple_names with the shared library named as on the Unix-like systems
apple_names_so(lib_name, targetdir) == unix_names(lib_name, targetdir)

apple_names(lib_name, targetdir) ==
    LET static_lib == join(targetdir, <<"l", "i", "b">> \o lib_name \o <<".", "a">>)
        shared_lib == join(targetdir,
                           <<"l", "i", "b">> \o lib_name \o <<".", "d", "y", "l", "i", "b">>)
    IN FileNames(static_lib, shared_lib, None, None, None)

\* windows_msvc_names with the import library named as the static library
windows_msvc_names_implib(lib_name, targetdir) ==
    LET shared_lib == join(targetdir, lib_name \o <<".", "d", "l", "l">>)
        static_lib == join(targetdir, lib_name \o <<".", "l", "i", "b">>)
        impl_lib == join(targetdir, lib_name \o <<".", "l", "i", "b">>)
        pdb == join(targetdir, lib_name \o <<".", "p", "d", "b">>)
        def == join(targetdir, lib_name \o <<".", "d", "e", "f">>)
    IN FileNames(static_lib, shared_lib, Some(impl_lib), Some(pdb), Some(def))

windows_msvc_names(lib_name, targetdir) ==
    LET shared_lib == join(targetdir, lib_name \o <<".", "d", "l", "l">>)
        static_lib == join(targetdir, lib_name \o <<".", "l", "i", "b">>)
        impl_lib == join(targetdir, lib_name \o <<".", "d", "l", "l", ".", "l", "i", "b">>)
        pdb == join(targetdir, lib_name \o <<".", "p", "d", "b">>)
        def == join(targetdir, lib_name \o <<".", "d", "e", "f">>)
    IN FileNames(static_lib, shared_lib, Some(impl_lib), Some(pdb), Some(def))

\* windows_gnu_names with the "lib" prefix on the DLL as well
windows_gnu_names_dllprefix(lib_name, targetdir) ==
    LET shared_lib == join(targetdir, <<"l", "i", "b">> \o lib_name \o <<".", "d", "l", "l">>)
        static_lib == join(targetdir, <<"l", "i", "b">> \o lib_name \o <<".", "a">>)
        impl_lib == join(targetdir,
                         <<"l", "i", "b">> \o lib_name \o <<".", "d", "l", "l", ".", "a">>)
    IN FileNames(static_lib, shared_lib, Some(impl_lib), None, None)

windows_gnu_names(lib_name, targetdir) ==
    LET shared_lib == join(targetdir, lib_name \o <<".", "d", "l", "l">>)
        static_lib == join(targetdir, <<"l", "i", "b">> \o lib_name \o <<".", "a">>)
        impl_lib == join(targetdir,
                         <<"l", "i", "b">> \o lib_name \o <<".", "d", "l", "l", ".", "a">>)
    IN FileNames(static_lib, shared_lib, Some(impl_lib), None, None)

\* from_target with the Unix-like names as the default of the match
from_target_default(target, lib_name, targetdir) ==
    CASE target.os \in {"macos", "ios", "tvos", "visionos"} ->
             Some(apple_names(lib_name, targetdir))
      [] target.os = "windows" ->
             IF target.env = "msvc"
             THEN Some(windows_msvc_names(lib_name, targetdir))
             ELSE Some(windows_gnu_names(lib_name, targetdir))
      [] OTHER -> Some(unix_names(lib_name, targetdir))

from_target(target, lib_name, targetdir) ==
    CASE target.os \in {"none", "linux", "freebsd", "dragonfly", "netbsd", "android",
                        "haiku", "illumos", "openbsd", "emscripten", "hurd"} ->
             Some(unix_names(lib_name, targetdir))
      [] target.os \in {"macos", "ios", "tvos", "visionos"} ->
             Some(apple_names(lib_name, targetdir))
      [] target.os = "windows" ->
             IF target.env = "msvc"
             THEN Some(windows_msvc_names(lib_name, targetdir))
             ELSE Some(windows_gnu_names(lib_name, targetdir))
      [] OTHER -> None

\* ExtraTargets::default()
ExtraTargetsDefault == [include |-> <<>>, data |-> <<>>]

-----------------------------------------------------------------------------
(* BuildTargets *)

\* format!("The target {}-{} is not supported yet", target.os, target.env)
not_supported(target) ==
    "The target " \o target.os \o "-" \o target.env \o " is not supported yet"

\* pc_path with the header's name in place of the configured file name
pc_path_header(targetdir, capi_config) ==
    join(targetdir, capi_config.header.name \o <<".", "p", "c">>)

pc_path(targetdir, capi_config) ==
    join(targetdir, capi_config.pkg_config.filename \o <<".", "p", "c">>)

include_path(targetdir, capi_config) ==
    IF capi_config.header.enabled /\ capi_config.header.generation
    THEN Some(with_extension(join(targetdir, capi_config.header.name), <<"h">>))
    ELSE None

\* bool::then_some
then_some(b, x) == IF b THEN Some(x) ELSE None

\* new with the import library, the debug info and the def file kept only
\* when the shared library is requested
new_gated(name, target, targetdir, library_types, capi_config) ==
    LET pc == pc_path(targetdir, capi_config)
        include == include_path(targetdir, capi_config)
        file_names == from_target(target, name, targetdir)
    IN IF file_names = None THEN Err(not_supported(target))
       ELSE Ok([pc |-> pc,
                include |-> include,
                static_lib |-> then_some(library_types.staticlib, file_names[1].static_lib),
                shared_lib |-> then_some(library_types.cdylib, file_names[1].shared_lib),
                impl_lib |-> IF library_types.cdylib THEN file_names[1].impl_lib ELSE None,
                debug_info |-> IF library_types.cdylib THEN file_names[1].debug_info ELSE None,
                def |-> IF library_types.cdylib THEN file_names[1].def ELSE None,
                name |-> name,
                target |-> target,
                extra |-> ExtraTargetsDefault])

\* new with the naming table consulted only when a library type is requested
new_lazy(name, target, targetdir, library_types, capi_config) ==
    LET pc == pc_path(targetdir, capi_config)
        include == include_path(targetdir, capi_config)
        file_names == from_target(target, name, targetdir)
    IN IF ~library_types.staticlib /\ ~library_types.cdylib
       THEN Ok([pc |-> pc, include |-> include,
                static_lib |-> None, shared_lib |-> None,
                impl_lib |-> IF file_names = None THEN None ELSE file_names[1].impl_lib,
                debug_info |-> IF file_names = None THEN None ELSE file_names[1].debug_info,
                def |-> IF file_names = None THEN None ELSE file_names[1].def,
                name |-> name, target |-> target, extra |-> ExtraTargetsDefault])
       ELSE IF file_names = None THEN Err(not_supported(target))
       ELSE Ok([pc |-> pc,
                include |-> include,
                static_lib |-> then_some(library_types.staticlib, file_names[1].static_lib),
                shared_lib |-> then_some(library_types.cdylib, file_names[1].shared_lib),
                impl_lib |-> file_names[1].impl_lib,
                debug_info |-> file_names[1].debug_info,
                def |-> file_names[1].def,
                name |-> name,
                target |-> target,
                extra |-> ExtraTargetsDefault])

\* BuildTargets::new
new(name, target, targetdir, library_types, capi_config) ==
    LET pc == pc_path(targetdir, capi_config)
        include == include_path(targetdir, capi_config)
        file_names == from_target(target, name, targetdir)
    IN IF file_names = None THEN Err(not_supported(target))
       ELSE Ok([pc |-> pc,
                include |-> include,
                static_lib |-> then_some(library_types.staticlib, file_names[1].static_lib),
                shared_lib |-> then_some(library_types.cdylib, file_names[1].shared_lib),
                impl_lib |-> file_names[1].impl_lib,
                debug_info |-> file_names[1].debug_info,
                def |-> file_names[1].def,
                name |-> name,
                target |-> target,
                extra |-> ExtraTargetsDefault])

\* LibType::from_build_targets: Windows-style when the set has an import
\* library or a def file, else by the OS family
from_build_targets(self) ==
    IF self.impl_lib # None \/ self.def # None THEN "Windows"
    ELSE IF self.target.os \in Apple THEN "Dylib"
    ELSE "So"

lib_type(self) == from_build_targets(self)

\* debug_info_file_name with the stored path joined as it is
debug_info_file_name_whole(self, bindir, libdir) ==
    CASE lib_type(self) \in {"So", "Dylib"} ->
             IF self.debug_info = None THEN None
             ELSE Some(join(libdir, self.debug_info[1]))
      [] lib_type(self) = "Windows" ->
             IF self.debug_info = None THEN None
             ELSE Some(join(bindir, self.debug_info[1]))

\* BuildTargets::debug_info_file_name; each ? returns None from the function
debug_info_file_name(self, bindir, libdir) ==
    CASE lib_type(self) \in {"So", "Dylib"} ->
             IF self.debug_info = None THEN None
             ELSE IF file_name(self.debug_info[1]) = None THEN None
             ELSE Some(join(libdir, file_name(self.debug_info[1])[1]))
      [] lib_type(self) = "Windows" ->
             IF self.debug_info = None THEN None
             ELSE IF file_name(self.debug_info[1]) = None THEN None
             ELSE Some(join(bindir, file_name(self.debug_info[1])[1]))

-----------------------------------------------------------------------------
(* Extra install targets *)

star_h == <<"*", ".", "h">>

\* the values of InstallTargetPaths: a pattern, the files under a root that
\* it stands for, the directory they are installed to; a malformed pattern
\* cannot be expanded
PathSpecs ==
    {[from |-> star_h, files |-> <<<<"a", ".", "h">>, <<"b", ".", "h">>>>,
      to |-> <<"i", "n", "c">>, malformed |-> FALSE],
     [from |-> <<"d">>, files |-> <<<<"d">>>>, to |-> <<"s", "h">>, malformed |-> FALSE],
     [from |-> <<"[">>, files |-> <<>>, to |-> <<"s", "h">>, malformed |-> TRUE]}

InstallTargets == [kind : {"Asset", "Generated"}, paths : PathSpecs]

RECURSIVE SeqsUpTo(_, _)
SeqsUpTo(S, n) ==
    IF n = 0 THEN {<<>>}
    ELSE SeqsUpTo(S, n - 1) \cup {Append(q, x) : q \in {r \in SeqsUpTo(S, n - 1) : Len(r) = n - 1}, x \in S}

RootDirs == {<<"/", "s">>}

OutDirs == {None, Some(<<"/", "o">>)}

\* InstallTargetPaths::install_paths: the (source, destination) pairs of the
\* declaration under root, or the failure to expand its pattern
install_paths(paths, root) ==
    IF paths.malformed THEN Err(join(root, paths.from))
    ELSE Ok([i \in 1..Len(paths.files) |->
                <<join(root, paths.files[i]), join(paths.to, paths.files[i])>>])

\* the sequences of a sequence put one after the other
RECURSIVE flatten(_)
flatten(ss) == IF ss = <<>> THEN <<>> ELSE Head(ss) \o flatten(Tail(ss))

\* expand with a Generated declaration failing when there is no output root
expand_strict(t, root_path, root_output) ==
    CASE t.kind = "Asset" -> Some(install_paths(t.paths, root_path))
      [] t.kind = "Generated" ->
             IF root_output = None THEN Some(Err(t.paths.from))
             ELSE Some(install_paths(t.paths, root_output[1]))

\* the closure given to filter_map
expand(t, root_path, root_output) ==
    CASE t.kind = "Asset" -> Some(install_paths(t.paths, root_path))
      [] t.kind = "Generated" ->
             IF root_output = None THEN None
             ELSE Some(install_paths(t.paths, root_output[1]))

\* Iterator::filter_map: the Some values, in order
filter_map(targets, root_path, root_output) ==
    flatten([i \in 1..Len(targets) |-> expand(targets[i], root_path, root_output)])

\* Itertools::flatten_ok: every Ok sequence is replaced by its items, each
\* wrapped in Ok; an Err stays as one item
flatten_ok(rs) ==
    flatten([i \in 1..Len(rs) |->
                IF rs[i].ok THEN [j \in 1..Len(rs[i].val) |-> Ok(rs[i].val[j])]
                ELSE <<rs[i]>>])

\* Iterator::collect into a Result<Vec<_>, _>: the first Err, or all the items
collect(items) ==
    LET errs == {i \in 1..Len(items) : ~items[i].ok}
    IN IF errs # {} THEN items[CHOOSE i \in errs : \A j \in errs : i <= j]
       ELSE Ok([i \in 1..Len(items) |-> items[i].val])

extra_targets(targets, root_path, root_output) ==
    collect(flatten_ok(filter_map(targets, root_path, root_output)))

\* ExtraTargets::setup: the ExtraTargets after the call and the value returned;
\* each ? returns the failure at once
setup(self, capi_config, root_dir, out_dir) ==
    LET include == extra_targets(capi_config.install.include, root_dir, out_dir)
        self1 == [self EXCEPT !.include = include.val]
        data == extra_targets(capi_config.install.data, root_dir, out_dir)
        self2 == [self1 EXCEPT !.data = data.val]
    IN IF ~include.ok THEN [self |-> self, ret |-> include]
       ELSE IF ~data.ok THEN [self |-> self1, ret |-> data]
       ELSE [self |-> self2, ret |-> Ok(<<>>)]

-----------------------------------------------------------------------------
(* State *)

NoArgs == [none |-> TRUE]

Init ==
    /\ op = "init"
    /\ args = NoArgs
    /\ ret = None
    /\ build_targets = None
    /\ extra = ExtraTargetsDefault

\* a call of FileNames::from_target
FromTarget ==
    \E target \in Targets, lib_name \in LibNames, targetdir \in TargetDirs :
        /\ op' = "from_target"
        /\ args' = [target |-> target, lib_name |-> lib_name, targetdir |-> targetdir]
        /\ ret' = from_target(target, lib_name, targetdir)
        /\ UNCHANGED <<build_targets, extra>>

NextNames == FromTarget

SpecNames == Init /\ [][NextNames]_vars

\* the call of BuildTargets::new of a build; build_targets is the set it
\* returned, if any
New ==
    /\ op = "init"
    /\ \E name \in LibNames, target \in Targets, targetdir \in TargetDirs,
       library_types \in LibraryTypesSet, capi_config \in CApiConfigs :
        LET r == new(name, target, targetdir, library_types, capi_config)
        IN /\ op' = "new"
           /\ args' = [name |-> name, target |-> target, targetdir |-> targetdir,
                       library_types |-> library_types, capi_config |-> capi_config]
           /\ ret' = r
           /\ build_targets' = IF r.ok THEN Some(r.val) ELSE None
           /\ UNCHANGED extra

\* a call of debug_info_file_name on the set last built
DebugInfoFileName ==
    /\ build_targets # None
    /\ \E bindir \in BinDirs, libdir \in LibDirs :
        /\ op' = "debug_info_file_name"
        /\ args' = [bindir |-> bindir, libdir |-> libdir]
        /\ ret' = debug_info_file_name(build_targets[1], bindir, libdir)
        /\ UNCHANGED <<build_targets, extra>>

NextBuild == New \/ DebugInfoFileName

SpecBuild == Init /\ [][NextBuild]_vars

\* a call of extra_targets
ExtraTargetsCall ==
    /\ op = "init"
    /\ \E targets \in SeqsUpTo(InstallTargets, MaxDecls),
          root_path \in RootDirs, root_output \in OutDirs :
        /\ op' = "extra_targets"
        /\ args' = [targets |-> targets, root_path |-> root_path,
                    root_output |-> root_output]
        /\ ret' = extra_targets(targets, root_path, root_output)
        /\ UNCHANGED <<build_targets, extra>>

\* the call of ExtraTargets::setup of a build, on the ExtraTargets as
\* constructed; args.before is the ExtraTargets as it was when the call began
Setup ==
    /\ op = "init"
    /\ \E include \in SeqsUpTo(InstallTargets, MaxDecls),
          data \in SeqsUpTo(InstallTargets, MaxDecls),
          root_dir \in RootDirs, out_dir \in OutDirs :
        /\ Len(include) + Len(data) <= MaxDecls
        /\ LET capi_config == [install |-> [include |-> include, data |-> data]]
               r == setup(extra, capi_config, root_dir, out_dir)
           IN /\ op' = "setup"
              /\ args' = [capi_config |-> capi_config, root_dir |-> root_dir,
                          out_dir |-> out_dir, before |-> extra]
              /\ ret' = r.ret
              /\ extra' = r.self
              /\ UNCHANGED build_targets

NextExtra == ExtraTargetsCall \/ Setup

SpecExtra == Init /\ [][NextExtra]_vars

-----------------------------------------------------------------------------
(* Properties of the naming table *)

\* the path p is the file named fname directly under the directory dir
InDir(p, dir, fname) == components(p) = Append(components(dir), fname)

lit_lib == <<"l", "i", "b">>

InTable(os) == os \in UnixLike \cup Apple \cup {"windows"}

C3_WindowsMsvc ==
    (op = "from_target" /\ args.target.os = "windows" /\ args.target.env = "msvc") =>
        /\ ret # None
        /\ InDir(ret[1].static_lib, args.targetdir,
                 args.lib_name \o <<".", "l", "i", "b">>)
        /\ InDir(ret[1].shared_lib, args.targetdir,
                 args.lib_name \o <<".", "d", "l", "l">>)
        /\ Len(ret[1].impl_lib) = 1
        /\ InDir(ret[1].impl_lib[1], args.targetdir,
                 args.lib_name \o <<".", "d", "l", "l", ".", "l", "i", "b">>)
        /\ Len(ret[1].debug_info) = 1
        /\ InDir(ret[1].debug_info[1], args.targetdir,
                 args.lib_name \o <<".", "p", "d", "b">>)
        /\ Len(ret[1].def) = 1
        /\ InDir(ret[1].def[1], args.targetdir,
                 args.lib_name \o <<".", "d", "e", "f">>)

C3_Witness ==
    op = "from_target" /\ args.target.os = "windows" /\ args.target.env = "msvc"
        /\ args.lib_name = ferris /\ args.targetdir = foo_bar /\ ret # None

\* C4: for every Unix-like and every Apple OS and any environment,
\* from_target gives D/libN.a, the shared library D/libN.so (Unix-like) or
\* D/libN.dylib (Apple), and no import library, debug info or def file.
C4_UnixApple ==
    (op = "from_target" /\ args.target.os \in UnixLike \cup Apple) =>
        /\ ret # None
        /\ InDir(ret[1].static_lib, args.targetdir,
                 lit_lib \o args.lib_name \o <<".", "a">>)
        /\ InDir(ret[1].shared_lib, args.targetdir,
                 lit_lib \o args.lib_name
                     \o (IF args.target.os \in Apple
                         THEN <<".", "d", "y", "l", "i", "b">>
                         ELSE <<".", "s", "o">>))
        /\ ret[1].impl_lib = None
        /\ ret[1].debug_info = None
        /\ ret[1].def = None

C4_Witness ==
    op = "from_target" /\ args.target.os = "visionos" /\ args.target.env = "msvc"
        /\ ret # None

-----------------------------------------------------------------------------
(* Properties of BuildTargets *)

Resolved == from_target(args.target, args.name, args.targetdir)

\* C5: in a set returned by new, static_lib and shared_lib are the table's
\* paths when staticlib, respectively cdylib, is requested and absent
\* otherwise; impl_lib, debug_info and def are the table's values whatever
\* is requested.
C5_Selection ==
    (op = "new" /\ ret.ok) =>
        /\ Resolved # None
        /\ ret.val.static_lib = (IF args.library_types.staticlib
                                 THEN <<Resolved[1].static_lib>> ELSE <<>>)
        /\ ret.val.shared_lib = (IF args.library_types.cdylib
                                 THEN <<Resolved[1].shared_lib>> ELSE <<>>)
        /\ ret.val.impl_lib = Resolved[1].impl_lib
        /\ ret.val.debug_info = Resolved[1].debug_info
        /\ ret.val.def = Resolved[1].def

C5_Witness ==
    /\ op = "new" /\ ret.ok
    /\ ~args.library_types.staticlib /\ ~args.library_types.cdylib
    /\ ret.val.static_lib = None /\ ret.val.shared_lib = None
    /\ ret.val.impl_lib # None /\ ret.val.debug_info # None /\ ret.val.def # None

\* C6: new fails exactly when from_target fails for the target, for all four
\* library-type selections; the error names the target's OS and environment
\* and there is no set.
C6_Unsupported ==
    op = "new" =>
        /\ ~ret.ok <=> Resolved = None
        /\ ~ret.ok <=> ~InTable(args.target.os)
        /\ ~ret.ok =>
              /\ ret = [ok |-> FALSE,
                        err |-> "The target " \o args.target.os \o "-" \o args.target.env
                                    \o " is not supported yet"]
              /\ build_targets = None

C6_Witness ==
    /\ op = "new" /\ ~ret.ok
    /\ ~args.library_types.staticlib /\ ~args.library_types.cdylib
    /\ ret.err = "The target solaris-gnu is not supported yet"

\* the last component of a path
BaseName(p) == components(p)[Len(components(p))]

\* C9: debug_info_file_name is absent when the set has no debug-info path;
\* otherwise it is the file directly under bindir (Windows-style set) or
\* libdir (SharedObject or DynamicLibrary set) whose name is the last
\* component of the debug-info path.
C9_DebugInfoFileName ==
    op = "debug_info_file_name" =>
        LET self == build_targets[1]
            dir == IF from_build_targets(self) = "Windows" THEN args.bindir
                   ELSE args.libdir
        IN IF self.debug_info = None THEN ret = None
           ELSE /\ Len(ret) = 1
                /\ InDir(ret[1], dir, BaseName(self.debug_info[1]))
                /\ Len(components(ret[1])) = Len(components(dir)) + 1

C9_Witness ==
    /\ op = "debug_info_file_name"
    /\ build_targets[1].debug_info = Some(foo_bar \o <<"/">> \o ferris \o <<".", "p", "d", "b">>)
    /\ args.bindir = <<"/", "u", "/", "b", "i", "n">>
    /\ ret = Some(<<"/", "u", "/", "b", "i", "n", "/">> \o ferris \o <<".", "p", "d", "b">>)

C9_WitnessAbsent ==
    /\ op = "debug_info_file_name"
    /\ build_targets[1].debug_info = None
    /\ ret = None

\* C10: a set returned by new has the non-empty package-config path
\* output_dir/<pkg_config.filename>.pc and the target it was given.
C10_PcAndTarget ==
    (op = "new" /\ ret.ok) =>
        /\ ret.val.pc # <<>>
        /\ InDir(ret.val.pc, args.targetdir,
                 args.capi_config.pkg_config.filename \o <<".", "p", "c">>)
        /\ ret.val.target = args.target

C10_Witness ==
    /\ op = "new" /\ ret.ok
    /\ args.capi_config.pkg_config.filename # args.name
    /\ args.capi_config.pkg_config.filename # args.capi_config.header.name
    /\ ret.val.pc = foo_bar \o <<"/", "c", ".", "1", ".", "p", "c">>

-----------------------------------------------------------------------------
(* Properties of the extra install targets *)

\* the declaration is expanded: an Asset always, a Generated one when there
\* is an output root
Expanded(t, root_output) == t.kind = "Asset" \/ root_output # None

\* the pairs the declaration stands for
Contribution(t, root_path, root_output) ==
    IF t.kind = "Asset" THEN install_paths(t.paths, root_path).val
    ELSE IF root_output # None THEN install_paths(t.paths, root_output[1]).val
    ELSE <<>>

\* the number of pairs of the declarations before the d-th
RECURSIVE Offset(_, _, _, _)
Offset(targets, d, root_path, root_output) ==
    IF d <= 1 THEN 0
    ELSE Offset(targets, d - 1, root_path, root_output)
         + Len(Contribution(targets[d - 1], root_path, root_output))

\* C7: when no expansion fails, extra_targets returns the pairs of the Asset
\* declarations (against the source root) and, when there is an output root,
\* of the Generated declarations (against it), in declaration order and in
\* each declaration's order; without output root a Generated declaration
\* gives no pair and no error.
C7_ExtraTargets ==
    (/\ op = "extra_targets"
     /\ \A d \in 1..Len(args.targets) :
            Expanded(args.targets[d], args.root_output) => ~args.targets[d].paths.malformed) =>
        /\ ret.ok
        /\ Len(ret.val) = Offset(args.targets, Len(args.targets) + 1,
                                 args.root_path, args.root_output)
        /\ \A d \in 1..Len(args.targets) :
               LET c == Contribution(args.targets[d], args.root_path, args.root_output)
                   o == Offset(args.targets, d, args.root_path, args.root_output)
               IN \A j \in 1..Len(c) : ret.val[o + j] = c[j]

C7_Witness ==
    /\ op = "extra_targets"
    /\ args.root_output = None
    /\ Len(args.targets) = 2
    /\ args.targets[1].kind = "Generated" /\ args.targets[1].paths.malformed
    /\ args.targets[2].kind = "Asset" /\ args.targets[2].paths.from = star_h
    /\ ret = Ok(<<<<<<"/", "s", "/", "a", ".", "h">>, <<"i", "n", "c", "/", "a", ".", "h">>>>,
                  <<<<"/", "s", "/", "b", ".", "h">>, <<"i", "n", "c", "/", "b", ".", "h">>>>>>)

C7_WitnessOrder ==
    /\ op = "extra_targets"
    /\ args.root_output # None
    /\ Len(args.targets) = 2
    /\ args.targets[1].kind = "Generated" /\ args.targets[2].kind = "Asset"
    /\ ret.ok /\ Len(ret.val) = 3
    /\ ret.val[1][1] = <<"/", "o", "/", "d">>
    /\ ret.val[2][1] = <<"/", "s", "/", "a", ".", "h">>
    /\ ret.val[3][1] = <<"/", "s", "/", "b", ".", "h">>

\* C8: when setup fails, the include list and the data list hold what they
\* held before the call.
C8_SetupAtomic ==
    (op = "setup" /\ ~ret.ok) => extra = args.before

====
